---- MODULE Spec2Model ----
(***************************************************************************)
(* Session Summary Microservice (src/main.py).                             *)
(*                                                                         *)
(* The service keeps three process-wide tables (TOKEN_USER, ACTIVE,        *)
(* FINISHED) and one persisted document (summaries.json).  Every request   *)
(* first resolves the caller with current_user_id and then runs one of     *)
(* the handlers record_event, end_session, get_latest, export_session.     *)
(*                                                                         *)
(* Representation                                                          *)
(*   - a Python dict is a function whose DOMAIN is the set of keys;        *)
(*   - a Python list is a sequence;                                        *)
(*   - an ISO-8601 string is [wall, tz]: the wall-clock reading (in whole  *)
(*     time units) and the zone designator it is written with;            *)
(*   - a parsed datetime is [wall, aware, off];                            *)
(*   - a float amount is an integer number of halves (0.5 steps, which     *)
(*     binary floating point adds exactly); a summary number is            *)
(*     [kind, halves] with kind "int" or "float".                          *)
(***************************************************************************)
EXTENDS Integers, Sequences, FiniteSets, TLC

VARIABLES TOKEN_USER, ACTIVE, FINISHED, disk, clock, req, resp, pc, loc

vars == <<TOKEN_USER, ACTIVE, FINISHED, disk, clock, req, resp, pc, loc>>

(***************************************************************************)
(* Bounds of the model.                                                    *)
(***************************************************************************)
MaxEvents == 2        \* events held by all active sessions together
MaxTime == 2          \* the clock runs over 1..MaxTime

(***************************************************************************)
(* Input domains.                                                          *)
(***************************************************************************)
Users == {"A", "B"}
Tokens == {"t1", "t2"}
Sids == {"s1", "s2"}
EventTypes == {"bet", "win", "loss"}

NoHeader == "<absent>"            \* the X-User-Id header was not sent
Hints == {NoHeader, ""} \cup Users

NoParam == "<absent>"             \* a query parameter that was not sent

EmptyDict == [k \in {} |-> 0]     \* {}

(***************************************************************************)
(* Time codec: now_iso, parse_iso, isoformat.                              *)
(***************************************************************************)
None == [wall |-> 0, tz |-> "None"]            \* Python None for Optional[str]

Iso(w, z) == [wall |-> w, tz |-> z]

now_iso(t) == Iso(t, "+00:00")

\* parse_iso raises on a string that is not ISO-8601
Parseable(ts) == ts.tz \in {"Z", "+00:00", "+01:00", "naive"}

ZoneOffset(z) == IF z = "+01:00" THEN 1 ELSE 0

\* 'Z' is replaced by '+00:00'; a string without designator parses naive
parse_iso(ts) ==
    [wall |-> ts.wall, aware |-> ts.tz # "naive", off |-> ZoneOffset(ts.tz)]

\* d.replace(microsecond=0, tzinfo=timezone.utc).isoformat(): the wall-clock
\* reading is kept and labelled UTC, no conversion takes place
ReplaceUtcIso(d) == Iso(d.wall, "+00:00")

\* datetime ordering: aware values compare by instant, naive ones by reading
SortKey(d) == IF d.aware THEN d.wall - d.off ELSE d.wall

\* comparing an offset-naive with an offset-aware datetime raises TypeError;
\* list.sort compares every element with an earlier one
SortRaises(ds) ==
    \E i, j \in 1..Len(ds) : ds[i].aware # ds[j].aware

\* list.sort is stable: index of ts_list[0] and of ts_list[-1] after sorting
FirstSorted(ds) ==
    CHOOSE i \in 1..Len(ds) :
        \A j \in 1..Len(ds) :
            \/ SortKey(ds[i]) < SortKey(ds[j])
            \/ SortKey(ds[i]) = SortKey(ds[j]) /\ i <= j

LastSorted(ds) ==
    CHOOSE i \in 1..Len(ds) :
        \A j \in 1..Len(ds) :
            \/ SortKey(ds[j]) < SortKey(ds[i])
            \/ SortKey(ds[j]) = SortKey(ds[i]) /\ j <= i

(***************************************************************************)
(* Numbers.                                                                *)
(***************************************************************************)
_int_if_whole(x) ==
    IF x % 2 = 0 THEN [kind |-> "int", halves |-> x]
                 ELSE [kind |-> "float", halves |-> x]

\* a sum that forgets the "if e['event_type'] == ty" filter
RECURSIVE SumOfEveryType(_, _)
SumOfEveryType(events, ty) ==
    IF events = <<>> THEN 0
    ELSE Head(events).amount + SumOfEveryType(Tail(events), ty)

\* sum(float(e['amount']) for e in events if e['event_type'] == ty)
RECURSIVE SumOf(_, _)
SumOf(events, ty) ==
    IF events = <<>> THEN 0
    ELSE (IF Head(events).event_type = ty THEN Head(events).amount ELSE 0)
         + SumOf(Tail(events), ty)

\* sum(1 for e in events if e['event_type'] == ty)
RECURSIVE CountOf(_, _)
CountOf(events, ty) ==
    IF events = <<>> THEN 0
    ELSE (IF Head(events).event_type = ty THEN 1 ELSE 0)
         + CountOf(Tail(events), ty)

(***************************************************************************)
(* Dict and list helpers.                                                  *)
(***************************************************************************)
\* d.get(k, {}) for a dict of dicts, d.get(k, []) for a dict of lists
GetDict(d, k) == IF k \in DOMAIN d THEN d[k] ELSE EmptyDict
GetList(d, k) == IF k \in DOMAIN d THEN d[k] ELSE <<>>

\* d[k] = v
Put(d, k, v) == [x \in (DOMAIN d) \cup {k} |-> IF x = k THEN v ELSE d[x]]

HasSession(A, u, sid) == sid \in DOMAIN GetDict(A, u)

\* indexes of the entries of a list of summaries that carry session id sid
Matches(items, sid) == {i \in 1..Len(items) : items[i].session_id = sid}

\* the first index found by "for i, s in enumerate(items)"
FirstMatch(items, sid) ==
    CHOOSE i \in Matches(items, sid) : \A j \in Matches(items, sid) : i <= j

(***************************************************************************)
(* Summary objects and the persisted document.                             *)
(***************************************************************************)
Summary(sid, u, st, et, r, tb, tw, nc) ==
    [session_id |-> sid, user_id |-> u, start_time |-> st, end_time |-> et,
     rounds |-> r, total_bets |-> tb, total_wins |-> tw, net_change |-> nc]

NoBody == [none |-> TRUE]

\* json.dump writes an int as an integer literal and a float with a
\* fractional part; json.load reads them back as int and float
JsonNumber(n) ==
    [lit |-> IF n.kind = "int" THEN "integer" ELSE "decimal", halves |-> n.halves]

\* a loader that reads every JSON number as a float
PyNumberAsFloat(j) == [kind |-> "float", halves |-> j.halves]

PyNumber(j) ==
    [kind |-> IF j.lit = "integer" THEN "int" ELSE "float", halves |-> j.halves]

JsonSummary(s) ==
    [s EXCEPT !.total_bets = JsonNumber(@), !.total_wins = JsonNumber(@),
              !.net_change = JsonNumber(@)]

PySummary(j) ==
    [j EXCEPT !.total_bets = PyNumber(@), !.total_wins = PyNumber(@),
              !.net_change = PyNumber(@)]

JsonDump(F) ==
    [u \in DOMAIN F |-> [i \in 1..Len(F[u]) |-> JsonSummary(F[u][i])]]

JsonLoad(doc) ==
    [u \in DOMAIN doc |-> [i \in 1..Len(doc[u]) |-> PySummary(doc[u][i])]]

\* the file summaries.json: missing, not JSON, JSON that is not an object,
\* or a document written by save_finished
Document(doc) == [kind |-> "doc", doc |-> doc]
NoDocument(k) == [kind |-> k, doc |-> EmptyDict]

load_finished(file) ==
    IF file.kind = "doc" THEN JsonLoad(file.doc) ELSE EmptyDict

save_finished(F) == Document(JsonDump(F))

\* a save that writes summaries.json in place: a write that fails half-way
\* leaves a truncated document
save_failed_in_place(file) == NoDocument("corrupt")

\* save_finished raising: the dump goes to summaries.json.tmp and
\* os.replace is the last statement, so summaries.json is as it was
save_failed(file) == file

(***************************************************************************)
(* Identity binder.                                                        *)
(***************************************************************************)
Truthy(str) == str # NoHeader /\ str # ""

\* a binder that lets a conflicting hint take the token over
current_user_id_rebinds(tu, token, hint) ==
    IF ~Truthy(hint)
    THEN IF token \in DOMAIN tu
         THEN [status |-> 200, user |-> tu[token], tu |-> tu]
         ELSE [status |-> 401, user |-> "", tu |-> tu]
    ELSE [status |-> 200, user |-> hint, tu |-> Put(tu, token, hint)]

\* a binder that trusts the token and never compares the hint with it
current_user_id_ignores_hint(tu, token, hint) ==
    IF token \in DOMAIN tu
    THEN [status |-> 200, user |-> tu[token], tu |-> tu]
    ELSE IF ~Truthy(hint)
         THEN [status |-> 401, user |-> "", tu |-> tu]
         ELSE [status |-> 200, user |-> hint, tu |-> Put(tu, token, hint)]

\* a binder that binds whatever header value it is sent, the empty one too
current_user_id_binds_empty(tu, token, hint) ==
    IF token \in DOMAIN tu
    THEN IF Truthy(hint) /\ hint # tu[token]
         THEN [status |-> 403, user |-> "", tu |-> tu]
         ELSE [status |-> 200, user |-> tu[token], tu |-> tu]
    ELSE IF hint = NoHeader
         THEN [status |-> 401, user |-> "", tu |-> tu]
         ELSE [status |-> 200, user |-> hint, tu |-> Put(tu, token, hint)]

current_user_id(tu, token, hint) ==
    IF token \in DOMAIN tu
    THEN IF Truthy(hint) /\ hint # tu[token]
         THEN [status |-> 403, user |-> "", tu |-> tu]
         ELSE [status |-> 200, user |-> tu[token], tu |-> tu]
    ELSE IF ~Truthy(hint)
         THEN [status |-> 401, user |-> "", tu |-> tu]
         ELSE [status |-> 200, user |-> hint, tu |-> Put(tu, token, hint)]

(***************************************************************************)
(* Summary engine.                                                         *)
(***************************************************************************)
\* ts_list: the parsed timestamps of the events, unparseable ones skipped
RECURSIVE TsList(_)
TsList(events) ==
    IF events = <<>> THEN <<>>
    ELSE (IF Parseable(Head(events).timestamp)
          THEN <<parse_iso(Head(events).timestamp)>> ELSE <<>>)
         \o TsList(Tail(events))

\* "x or now_iso()"
OrNow(x, t) == IF x = None THEN now_iso(t) ELSE x

ActiveSummary(session, u, sid, t) ==
    LET events == session.events
        rounds == CountOf(events, "bet")
        total_bets == SumOf(events, "bet")
        total_wins == SumOf(events, "win")
        net_change == total_wins - total_bets
        ts_list == TsList(events)
        start_time == IF ts_list # <<>>
                      THEN ReplaceUtcIso(ts_list[FirstSorted(ts_list)])
                      ELSE session.start_time
        end_time == IF ts_list # <<>> /\ session.end_time = None
                    THEN ReplaceUtcIso(ts_list[LastSorted(ts_list)])
                    ELSE session.end_time
    IN Summary(sid, u, OrNow(start_time, t), OrNow(end_time, t), rounds,
               _int_if_whole(total_bets), _int_if_whole(total_wins),
               _int_if_whole(net_change))

compute_summary(A, F, u, sid, t) ==
    IF ~HasSession(A, u, sid)
    THEN IF Matches(GetList(F, u), sid) # {}
         THEN [status |-> 200,
               summary |-> GetList(F, u)[FirstMatch(GetList(F, u), sid)]]
         ELSE [status |-> 404, summary |-> NoBody]
    ELSE IF SortRaises(TsList(A[u][sid].events))
         THEN [status |-> 500, summary |-> NoBody]
         ELSE [status |-> 200, summary |-> ActiveSummary(A[u][sid], u, sid, t)]

(***************************************************************************)
(* The last request and its response.  req is what the transport layer     *)
(* hands to the handler: the operation, the bearer token, the X-User-Id    *)
(* header, the session id and, for record_event, the event.  In resp,      *)
(* status is the HTTP status; ok is the "ok" flag of the body (FALSE on    *)
(* every error); user is the resolved user_id ("" when identity            *)
(* resolution failed); body is the Summary of the response, if any.        *)
(***************************************************************************)
NoEvent == <<>>

Request(op, token, hint, sid, ev) ==
    [op |-> op, token |-> token, hint |-> hint, sid |-> sid, event |-> ev]

Response(status, ok, u, body) ==
    [status |-> status, ok |-> ok, user |-> u, body |-> body]

Failure(status, u) == Response(status, FALSE, u, NoBody)

NoRequest == Request("startup", "", "", "", NoEvent)
NoResponse == Response(0, FALSE, "", NoBody)

\* events held by all active sessions together
RECURSIVE EventsIn(_, _)
EventsIn(A, keys) ==
    IF keys = {} THEN 0
    ELSE LET k == CHOOSE x \in keys : TRUE
         IN (IF HasSession(A, k[1], k[2]) THEN Len(A[k[1]][k[2]].events) ELSE 0)
            + EventsIn(A, keys \ {k})

TotalEvents(A) == EventsIn(A, Users \X Sids)

(***************************************************************************)
(* Session store: what record_event does to ACTIVE (lines 223-233).        *)
(***************************************************************************)
Event(ty, amount, ts) == [event_type |-> ty, amount |-> amount, timestamp |-> ts]

NewSession(ts) == [start_time |-> ts, end_time |-> None, events |-> <<>>]

\* a record_event that reopens an ended session: it clears end_time
AppendEventReopens(A, u, sid, ev) ==
    LET user_sessions == GetDict(A, u)
        sess == IF sid \in DOMAIN user_sessions
                THEN user_sessions[sid] ELSE NewSession(ev.timestamp)
    IN Put(A, u, Put(user_sessions, sid,
                     [sess EXCEPT !.events = Append(@, ev), !.end_time = None]))

\* a record_event that keys sessions by session_id alone: the event goes
\* to the caller's session and to every other user's session of that id
AppendEventToAll(A, u, sid, ev) ==
    LET user_sessions == GetDict(A, u)
        sess == IF sid \in DOMAIN user_sessions
                THEN user_sessions[sid] ELSE NewSession(ev.timestamp)
        mine == Put(A, u, Put(user_sessions, sid,
                              [sess EXCEPT !.events = Append(@, ev)]))
    IN [v \in DOMAIN mine |->
          IF v # u /\ sid \in DOMAIN mine[v]
          THEN [mine[v] EXCEPT ![sid].events = Append(@, ev)]
          ELSE mine[v]]

\* a record_event that returns after creating a session: only a session
\* that exists already gets the event
AppendEventIfPresent(A, u, sid, ev) ==
    LET user_sessions == GetDict(A, u)
    IN IF sid \in DOMAIN user_sessions
       THEN Put(A, u, Put(user_sessions, sid,
                          [user_sessions[sid] EXCEPT !.events = Append(@, ev)]))
       ELSE Put(A, u, Put(user_sessions, sid, NewSession(ev.timestamp)))

AppendEvent(A, u, sid, ev) ==
    LET user_sessions == GetDict(A, u)
        sess == IF sid \in DOMAIN user_sessions
                THEN user_sessions[sid] ELSE NewSession(ev.timestamp)
    IN Put(A, u, Put(user_sessions, sid,
                     [sess EXCEPT !.events = Append(@, ev)]))

\* lines 243-244 of end_session
MarkEnded(A, u, sid, t) ==
    IF A[u][sid].end_time = None
    THEN [A EXCEPT ![u][sid].end_time = now_iso(t)]
    ELSE A

\* an upsert whose loop never matches: every summary is appended
UpsertAppends(F, u, summary) == Put(F, u, Append(GetList(F, u), summary))

\* an upsert whose append is not in the loop's else: it replaces and appends
UpsertReplacesAndAppends(F, u, summary) ==
    LET items == GetList(F, u)
        replaced == IF Matches(items, summary.session_id) # {}
                    THEN [items EXCEPT ![FirstMatch(items, summary.session_id)] = summary]
                    ELSE items
    IN Put(F, u, Append(replaced, summary))

\* an upsert that keeps the entry a session already has
UpsertKeepsFirst(F, u, summary) ==
    LET items == GetList(F, u)
    IN IF Matches(items, summary.session_id) # {}
       THEN Put(F, u, items)
       ELSE Put(F, u, Append(items, summary))

\* lines 249-255 of end_session
Upsert(F, u, summary) ==
    LET items == GetList(F, u)
    IN IF Matches(items, summary.session_id) # {}
       THEN Put(F, u, [items EXCEPT ![FirstMatch(items, summary.session_id)] = summary])
       ELSE Put(F, u, Append(items, summary))

(***************************************************************************)
(* Archive retrieval: max(items, key=lambda s: s.get("end_time") or "").   *)
(* Strings compare character by character: the date-time part first, then *)
(* the zone designator ("" < "+00:00" < "+01:00" < "Z").                   *)
(***************************************************************************)
ZoneRank(z) ==
    CASE z = "naive" -> 0 [] z = "+00:00" -> 1 [] z = "+01:00" -> 2 [] OTHER -> 3

StrLess(a, b) ==
    IF a = None THEN b # None
    ELSE IF b = None THEN FALSE
    ELSE \/ a.wall < b.wall
         \/ a.wall = b.wall /\ ZoneRank(a.tz) < ZoneRank(b.tz)

\* a retrieval that answers with the oldest entry of the list
LatestIsFirst(items) == items[1]

\* max returns the first of the maximal elements
Latest(items) ==
    items[CHOOSE i \in 1..Len(items) :
            \A j \in 1..Len(items) :
                /\ ~StrLess(items[i].end_time, items[j].end_time)
                /\ (j < i => StrLess(items[j].end_time, items[i].end_time))]

(***************************************************************************)
(* The handlers, one request at a time.                                    *)
(***************************************************************************)
Threads == {1, 2}

\* the locals of a worker thread between two requests; acks counts the
\* events this thread has been told were recorded
Idle(acks) ==
    [op |-> "idle", token |-> "", hint |-> "", user |-> "", sid |-> "",
     held |-> FALSE, idx |-> 0, summary |-> NoBody, acks |-> acks]

\* the state of a process after _startup, given the file it finds
Boot(file) ==
    /\ TOKEN_USER = EmptyDict
    /\ ACTIVE = EmptyDict
    /\ disk = file
    /\ FINISHED = load_finished(file)
    /\ clock = 1
    /\ req = NoRequest
    /\ resp = NoResponse
    /\ pc = [th \in Threads |-> "idle"]
    /\ loc = [th \in Threads |-> Idle(0)]

\* POST /session/event; tsIn = None: the timestamp field is omitted
record_event(token, hint, sid, ty, amount, tsIn) ==
    LET id == current_user_id(TOKEN_USER, token, hint)
        ts == IF tsIn = None THEN now_iso(clock) ELSE tsIn
    IN /\ TotalEvents(ACTIVE) < MaxEvents
       /\ req' = Request("event", token, hint, sid, <<Event(ty, amount, tsIn)>>)
       /\ TOKEN_USER' = id.tu
       /\ IF id.status # 200
          THEN /\ resp' = Failure(id.status, "")
               /\ UNCHANGED ACTIVE
          ELSE IF ~Parseable(ts)
          THEN /\ resp' = Failure(400, id.user)
               /\ UNCHANGED ACTIVE
          ELSE /\ ACTIVE' = AppendEvent(ACTIVE, id.user, sid, Event(ty, amount, ts))
               /\ resp' = Response(200, TRUE, id.user, NoBody)
       /\ UNCHANGED <<FINISHED, disk, clock, pc, loc>>

\* an end_session without the test of line 241: sess.get fails on None
SessionNotFoundCrash(u) == Failure(500, u)

\* line 242: raise HTTPException(status_code=404)
SessionNotFound(u) == Failure(404, u)

\* POST /session/end; written: whether the durable write succeeds
end_session(token, hint, sid, written) ==
    LET id == current_user_id(TOKEN_USER, token, hint)
        u == id.user
    IN /\ req' = Request("end", token, hint, sid, NoEvent)
       /\ TOKEN_USER' = id.tu
       /\ IF id.status # 200
          THEN /\ resp' = Failure(id.status, "")
               /\ UNCHANGED <<ACTIVE, FINISHED, disk>>
          ELSE IF ~HasSession(ACTIVE, u, sid)
          THEN /\ resp' = SessionNotFound(u)
               /\ UNCHANGED <<ACTIVE, FINISHED, disk>>
          ELSE LET A == MarkEnded(ACTIVE, u, sid, clock)
                   cs == compute_summary(A, FINISHED, u, sid, clock)
               IN /\ ACTIVE' = A
                  /\ IF cs.status # 200
                     THEN /\ resp' = Failure(cs.status, u)
                          /\ UNCHANGED <<FINISHED, disk>>
                     ELSE /\ FINISHED' = Upsert(FINISHED, u, cs.summary)
                          /\ IF written
                             THEN /\ disk' = save_finished(FINISHED')
                                  /\ resp' = Response(200, TRUE, u, cs.summary)
                             ELSE /\ disk' = save_failed(disk)
                                  /\ resp' = Failure(500, u)
       /\ UNCHANGED <<clock, pc, loc>>

\* GET /session/latest
get_latest(token, hint) ==
    LET id == current_user_id(TOKEN_USER, token, hint)
        items == GetList(FINISHED, id.user)
    IN /\ req' = Request("latest", token, hint, "", NoEvent)
       /\ TOKEN_USER' = id.tu
       /\ resp' = IF id.status # 200 THEN Failure(id.status, "")
                  ELSE IF items = <<>>
                  THEN Response(200, FALSE, id.user, NoBody)
                  ELSE Response(200, TRUE, id.user, Latest(items))
       /\ UNCHANGED <<ACTIVE, FINISHED, disk, clock, pc, loc>>

\* "session_id or legacy_sess_id" on two optional strings
OrElse(a, b) == IF a # NoParam /\ a # "" THEN a ELSE b

\* an export that closes the session it summarises
export_session_and_end(token, hint, session_id, legacy_sess_id) ==
    LET id == current_user_id(TOKEN_USER, token, hint)
        u == id.user
        sid == OrElse(session_id, legacy_sess_id)
        items == GetList(FINISHED, u)
        cs == compute_summary(ACTIVE, FINISHED, u, sid, clock)
    IN /\ req' = Request("export", token, hint, sid, NoEvent)
       /\ TOKEN_USER' = id.tu
       /\ resp' = IF id.status # 200 THEN Failure(id.status, "")
                  ELSE IF sid = NoParam \/ sid = ""
                  THEN Failure(400, u)
                  ELSE IF Matches(items, sid) # {}
                  THEN Response(200, TRUE, u, items[FirstMatch(items, sid)])
                  ELSE IF cs.status # 200 THEN Failure(cs.status, u)
                  ELSE Response(200, TRUE, u, cs.summary)
       /\ ACTIVE' = IF id.status = 200 /\ HasSession(ACTIVE, u, sid)
                    THEN MarkEnded(ACTIVE, u, sid, clock) ELSE ACTIVE
       /\ UNCHANGED <<FINISHED, disk, clock, pc, loc>>

\* GET /session/export
export_session(token, hint, session_id, legacy_sess_id) ==
    LET id == current_user_id(TOKEN_USER, token, hint)
        u == id.user
        sid == OrElse(session_id, legacy_sess_id)
        items == GetList(FINISHED, u)
        cs == compute_summary(ACTIVE, FINISHED, u, sid, clock)
    IN /\ req' = Request("export", token, hint, sid, NoEvent)
       /\ TOKEN_USER' = id.tu
       /\ resp' = IF id.status # 200 THEN Failure(id.status, "")
                  ELSE IF sid = NoParam \/ sid = ""
                  THEN Failure(400, u)
                  ELSE IF Matches(items, sid) # {}
                  THEN Response(200, TRUE, u, items[FirstMatch(items, sid)])
                  ELSE IF cs.status # 200 THEN Failure(cs.status, u)
                  ELSE Response(200, TRUE, u, cs.summary)
       /\ UNCHANGED <<ACTIVE, FINISHED, disk, clock, pc, loc>>

\* the process is stopped and started again: the tables are module globals
\* and start empty, _startup loads the archive from the document
Restart ==
    /\ TOKEN_USER' = EmptyDict
    /\ ACTIVE' = EmptyDict
    /\ FINISHED' = load_finished(disk)
    /\ req' = NoRequest
    /\ resp' = NoResponse
    /\ UNCHANGED <<disk, clock, pc, loc>>

\* time passes between two requests
Tick ==
    /\ clock < MaxTime
    /\ clock' = clock + 1
    /\ UNCHANGED <<TOKEN_USER, ACTIVE, FINISHED, disk, req, resp, pc, loc>>

(***************************************************************************)
(* Spec: one caller (one bearer token, user A) working on one session.     *)
(***************************************************************************)
Caller == {"t1"}
CallerHints == {NoHeader, "A"}
OneSid == {"s1"}

\* event_type, amount (in halves), timestamp sent
EventInputs ==
    {<<"bet", 1, None>>, <<"win", 2, None>>, <<"loss", 1, Iso(0, "naive")>>,
     <<"bet", 2, Iso(0, "bad")>>}

\* the query parameters session_id and sess_id
ExportInputs ==
    {<<"s1", NoParam>>, <<NoParam, "s1">>, <<"", "s2">>, <<NoParam, "">>}

Init == Boot(NoDocument("missing"))

RecordEvent ==
    \E token \in Caller, hint \in CallerHints, sid \in OneSid, e \in EventInputs :
        record_event(token, hint, sid, e[1], e[2], e[3])

EndSession ==
    \E token \in Caller, hint \in CallerHints, sid \in OneSid, written \in BOOLEAN :
        end_session(token, hint, sid, written)

GetLatest == \E token \in Caller, hint \in CallerHints : get_latest(token, hint)

ExportSession ==
    \E token \in Caller, hint \in CallerHints, q \in ExportInputs :
        export_session(token, hint, q[1], q[2])

Next == RecordEvent \/ EndSession \/ GetLatest \/ ExportSession \/ Tick

Spec == Init /\ [][Next]_vars

(***************************************************************************)
(* SpecArchive: one caller working on two sessions.                        *)
(***************************************************************************)
ArchiveEvents == {<<"bet", 1, None>>}

ArchiveExports == {<<"s1", NoParam>>, <<NoParam, "s2">>}

ArchiveRecordEvent ==
    \E token \in Caller, hint \in CallerHints, sid \in Sids, e \in ArchiveEvents :
        record_event(token, hint, sid, e[1], e[2], e[3])

ArchiveEndSession ==
    \E token \in Caller, hint \in CallerHints, sid \in Sids, written \in BOOLEAN :
        end_session(token, hint, sid, written)

ArchiveGetLatest == \E token \in Caller, hint \in CallerHints : get_latest(token, hint)

ArchiveExportSession ==
    \E token \in Caller, hint \in CallerHints, q \in ArchiveExports :
        export_session(token, hint, q[1], q[2])

NextArchive ==
    \/ ArchiveRecordEvent \/ ArchiveEndSession \/ ArchiveGetLatest
    \/ ArchiveExportSession \/ Tick

SpecArchive == Init /\ [][NextArchive]_vars

(***************************************************************************)
(* SpecShared: two bearer tokens and two users sharing one session id.     *)
(***************************************************************************)
SharedEvents == {<<"bet", 1, None>>, <<"win", 2, Iso(0, "naive")>>}

SharedExports == {<<"s1", NoParam>>, <<NoParam, NoParam>>}

SharedRecordEvent ==
    \E token \in Tokens, hint \in Hints, sid \in OneSid, e \in SharedEvents :
        record_event(token, hint, sid, e[1], e[2], e[3])

SharedEndSession ==
    \E token \in Tokens, hint \in Hints, sid \in OneSid, written \in BOOLEAN :
        end_session(token, hint, sid, written)

SharedGetLatest == \E token \in Tokens, hint \in Hints : get_latest(token, hint)

SharedExportSession ==
    \E token \in Tokens, hint \in Hints, q \in SharedExports :
        export_session(token, hint, q[1], q[2])

NextShared ==
    SharedRecordEvent \/ SharedEndSession \/ SharedGetLatest \/ SharedExportSession

SpecShared == Init /\ [][NextShared]_vars

(***************************************************************************)
(* SpecBoot: one caller, one session id, and the process restarting on     *)
(* whatever document it finds.                                             *)
(***************************************************************************)
BootFiles ==
    {NoDocument("missing"), NoDocument("corrupt"), NoDocument("not-object")}

BootEvents == {<<"bet", 1, None>>, <<"win", 3, None>>}

InitBoot == \E file \in BootFiles : Boot(file)

BootRecordEvent ==
    \E token \in Caller, hint \in CallerHints, sid \in OneSid, e \in BootEvents :
        record_event(token, hint, sid, e[1], e[2], e[3])

BootEndSession ==
    \E token \in Caller, hint \in CallerHints, sid \in OneSid, written \in BOOLEAN :
        end_session(token, hint, sid, written)

BootGetLatest == \E token \in Caller, hint \in CallerHints : get_latest(token, hint)

BootExportSession ==
    \E token \in Caller, hint \in CallerHints, q \in SharedExports :
        export_session(token, hint, q[1], q[2])

NextBoot ==
    \/ BootRecordEvent \/ BootEndSession \/ BootGetLatest \/ BootExportSession
    \/ Restart \/ Tick

SpecBoot == InitBoot /\ [][NextBoot]_vars

(***************************************************************************)
(* SpecSum: the summary engine on event lists of every type, amount and    *)
(* kind of timestamp.                                                      *)
(***************************************************************************)
SumAmounts == {1, 2}               \* 0.5 and 1.0

SumStamps == {None, Iso(0, "Z"), Iso(3, "+01:00")}

SumHints == {"A"}

SumRecordEvent ==
    \E token \in Caller, hint \in SumHints, sid \in OneSid, ty \in EventTypes,
       amount \in SumAmounts, tsIn \in SumStamps :
        record_event(token, hint, sid, ty, amount, tsIn)

SumEndSession ==
    \E token \in Caller, hint \in SumHints, sid \in OneSid :
        end_session(token, hint, sid, TRUE)

SumExportSession ==
    \E token \in Caller, hint \in SumHints, sid \in OneSid :
        export_session(token, hint, sid, NoParam)

NextSum == SumRecordEvent \/ SumEndSession \/ SumExportSession

SpecSum == Init /\ [][NextSum]_vars

(***************************************************************************)
(* SpecConc: two worker threads of the thread pool running record_event    *)
(* and end_session at the same time.  The handlers take no lock, so a      *)
(* thread can be preempted between any two statements; each action below   *)
(* is one statement (one dict or list operation) of a handler.  A thread   *)
(* holds a reference to a session object: held says whether that object    *)
(* is still the one stored in ACTIVE.                                      *)
(***************************************************************************)
ConcHints == {"A", "B"}
ConcOps == {"event", "end"}

InFlight(op) == Cardinality({th \in Threads : loc[th].op = op})

Reply(th, status, ok, body, acked) ==
    /\ req' = Request(loc[th].op, loc[th].token, loc[th].hint, loc[th].sid, NoEvent)
    /\ resp' = Response(status, ok, loc[th].user, body)
    /\ pc' = [pc EXCEPT ![th] = "idle"]
    /\ loc' = [loc EXCEPT ![th] = Idle(loc[th].acks + acked)]

Goto(th, label) == pc' = [pc EXCEPT ![th] = label]

\* a request arrives and is given to an idle worker
Accept(th) ==
    /\ pc[th] = "idle"
    /\ \E op \in ConcOps, token \in Caller, hint \in ConcHints, sid \in OneSid :
        /\ op = "event" => TotalEvents(ACTIVE) + InFlight("event") < MaxEvents
        /\ loc' = [loc EXCEPT ![th] = [@ EXCEPT !.op = op, !.token = token,
                                                 !.hint = hint, !.sid = sid]]
    /\ Goto(th, "auth")
    /\ UNCHANGED <<TOKEN_USER, ACTIVE, FINISHED, disk, clock, req, resp>>

Handler(th) == IF loc[th].op = "event" THEN "ev_setdefault" ELSE "end_get"

\* current_user_id, lines 142-150: user_id = TOKEN_USER.get(token) and the tests
Auth(th) ==
    /\ pc[th] = "auth"
    /\ LET token == loc[th].token
           hint == loc[th].hint
       IN IF token \in DOMAIN TOKEN_USER
          THEN IF Truthy(hint) /\ hint # TOKEN_USER[token]
               THEN Reply(th, 403, FALSE, NoBody, 0)
               ELSE /\ loc' = [loc EXCEPT ![th].user = TOKEN_USER[token]]
                    /\ Goto(th, Handler(th))
                    /\ UNCHANGED <<req, resp>>
          ELSE IF ~Truthy(hint)
               THEN Reply(th, 401, FALSE, NoBody, 0)
               ELSE /\ Goto(th, "bind")
                    /\ UNCHANGED <<loc, req, resp>>
    /\ UNCHANGED <<TOKEN_USER, ACTIVE, FINISHED, disk, clock>>

\* current_user_id, lines 151-152: TOKEN_USER[token] = x_user_id
Bind(th) ==
    /\ pc[th] = "bind"
    /\ TOKEN_USER' = Put(TOKEN_USER, loc[th].token, loc[th].hint)
    /\ loc' = [loc EXCEPT ![th].user = loc[th].hint]
    /\ Goto(th, Handler(th))
    /\ UNCHANGED <<ACTIVE, FINISHED, disk, clock, req, resp>>

\* record_event, line 223: user_sessions = ACTIVE.setdefault(user_id, {})
EvSetDefault(th) ==
    /\ pc[th] = "ev_setdefault"
    /\ ACTIVE' = Put(ACTIVE, loc[th].user, GetDict(ACTIVE, loc[th].user))
    /\ Goto(th, "ev_get")
    /\ UNCHANGED <<TOKEN_USER, FINISHED, disk, clock, req, resp, loc>>

\* record_event, lines 224-225: sess = user_sessions.get(req.session_id)
EvGet(th) ==
    /\ pc[th] = "ev_get"
    /\ IF loc[th].sid \in DOMAIN ACTIVE[loc[th].user]
       THEN /\ loc' = [loc EXCEPT ![th].held = TRUE]
            /\ Goto(th, "ev_append")
       ELSE /\ UNCHANGED loc
            /\ Goto(th, "ev_create")
    /\ UNCHANGED <<TOKEN_USER, ACTIVE, FINISHED, disk, clock, req, resp>>

\* threads other than th that hold the session object stored at (u, sid)
Holders(th, u, sid) ==
    {o \in Threads \ {th} : loc[o].held /\ loc[o].user = u /\ loc[o].sid = sid}

\* record_event, lines 226-227: user_sessions[req.session_id] = sess; the
\* object stored there before is no longer the session of (u, sid)
EvCreate(th) ==
    /\ pc[th] = "ev_create"
    /\ LET u == loc[th].user
           sid == loc[th].sid
       IN /\ ACTIVE' = Put(ACTIVE, u, Put(ACTIVE[u], sid, NewSession(now_iso(clock))))
          /\ loc' = [o \in Threads |->
                        IF o = th THEN [loc[o] EXCEPT !.held = TRUE]
                        ELSE IF o \in Holders(th, u, sid)
                        THEN [loc[o] EXCEPT !.held = FALSE]
                        ELSE loc[o]]
    /\ Goto(th, "ev_append")
    /\ UNCHANGED <<TOKEN_USER, FINISHED, disk, clock, req, resp>>

\* record_event, lines 229-235: sess["events"].append(...) and the reply
EvAppend(th) ==
    /\ pc[th] = "ev_append"
    /\ LET u == loc[th].user
           sid == loc[th].sid
       IN IF loc[th].held
          THEN ACTIVE' = [ACTIVE EXCEPT ![u][sid].events =
                              Append(@, Event("bet", 1, now_iso(clock)))]
          ELSE UNCHANGED ACTIVE
    /\ Reply(th, 200, TRUE, NoBody, 1)
    /\ UNCHANGED <<TOKEN_USER, FINISHED, disk, clock>>

\* end_session, lines 240-242: sess = ACTIVE.get(user_id, {}).get(session_id)
EndGet(th) ==
    /\ pc[th] = "end_get"
    /\ IF HasSession(ACTIVE, loc[th].user, loc[th].sid)
       THEN /\ loc' = [loc EXCEPT ![th].held = TRUE]
            /\ Goto(th, "end_mark")
            /\ UNCHANGED <<req, resp>>
       ELSE Reply(th, SessionNotFound(loc[th].user).status, FALSE, NoBody, 0)
    /\ UNCHANGED <<TOKEN_USER, ACTIVE, FINISHED, disk, clock>>

\* end_session, lines 243-244: sess["end_time"] = now_iso() when it is None;
\* marking a session object that is no longer the stored one changes nothing
\* in ACTIVE
EndMark(th) ==
    /\ pc[th] = "end_mark"
    /\ IF loc[th].held
       THEN ACTIVE' = MarkEnded(ACTIVE, loc[th].user, loc[th].sid, clock)
       ELSE UNCHANGED ACTIVE
    /\ Goto(th, "end_compute")
    /\ UNCHANGED <<TOKEN_USER, FINISHED, disk, clock, req, resp, loc>>

\* end_session, line 246: summary = compute_summary(user_id, session_id)
EndCompute(th) ==
    /\ pc[th] = "end_compute"
    /\ LET cs == compute_summary(ACTIVE, FINISHED, loc[th].user, loc[th].sid, clock)
       IN IF cs.status # 200
          THEN Reply(th, cs.status, FALSE, NoBody, 0)
          ELSE /\ loc' = [loc EXCEPT ![th].summary = cs.summary]
               /\ Goto(th, "end_setdefault")
               /\ UNCHANGED <<req, resp>>
    /\ UNCHANGED <<TOKEN_USER, ACTIVE, FINISHED, disk, clock>>

\* end_session, line 249: items = FINISHED.setdefault(user_id, [])
EndSetDefault(th) ==
    /\ pc[th] = "end_setdefault"
    /\ FINISHED' = Put(FINISHED, loc[th].user, GetList(FINISHED, loc[th].user))
    /\ Goto(th, "end_scan")
    /\ UNCHANGED <<TOKEN_USER, ACTIVE, disk, clock, req, resp, loc>>

\* end_session, lines 250-251: the loop looks for an entry of the session
EndScan(th) ==
    /\ pc[th] = "end_scan"
    /\ LET items == FINISHED[loc[th].user]
       IN loc' = [loc EXCEPT ![th].idx =
                      IF Matches(items, loc[th].sid) # {}
                      THEN FirstMatch(items, loc[th].sid) ELSE 0]
    /\ Goto(th, "end_store")
    /\ UNCHANGED <<TOKEN_USER, ACTIVE, FINISHED, disk, clock, req, resp>>

\* end_session, lines 252-255: items[i] = summary, or items.append(summary)
EndStore(th) ==
    /\ pc[th] = "end_store"
    /\ LET u == loc[th].user
       IN FINISHED' = [FINISHED EXCEPT ![u] =
                          IF loc[th].idx = 0 THEN Append(@, loc[th].summary)
                          ELSE [@ EXCEPT ![loc[th].idx] = loc[th].summary]]
    /\ Goto(th, "end_save")
    /\ UNCHANGED <<TOKEN_USER, ACTIVE, disk, clock, req, resp, loc>>

\* end_session, lines 256-258: save_finished() and the reply
EndSave(th) ==
    /\ pc[th] = "end_save"
    /\ disk' = save_finished(FINISHED)
    /\ Reply(th, 200, TRUE, loc[th].summary, 0)
    /\ UNCHANGED <<TOKEN_USER, ACTIVE, FINISHED, clock>>

NextConc ==
    \E th \in Threads :
        \/ Accept(th) \/ Auth(th) \/ Bind(th)
        \/ EvSetDefault(th) \/ EvGet(th) \/ EvCreate(th) \/ EvAppend(th)
        \/ EndGet(th) \/ EndMark(th) \/ EndCompute(th) \/ EndSetDefault(th)
        \/ EndScan(th) \/ EndStore(th) \/ EndSave(th)

SpecConc == Init /\ [][NextConc]_vars

(***************************************************************************)
(* Properties.                                                             *)
(*                                                                         *)
(* In the specifications that serve one request at a time, a step that     *)
(* leaves the clock alone and sets req to a request is the service of      *)
(* that request: req' is the request, the unprimed variables are the       *)
(* state it found, the primed ones the state and response it left.         *)
(***************************************************************************)
RequestOps == {"event", "end", "latest", "export"}

Served(op) == clock' = clock /\ req'.op = op

ServedAny == clock' = clock /\ req'.op \in RequestOps

\* the identity of the request was resolved (to resp'.user)
Resolved == resp'.status \notin {401, 403}

Stores == <<TOKEN_USER, ACTIVE, FINISHED, disk>>

\* C1: token binding is set-once.  A token that is bound stays bound to the
\* same user_id through every request, whatever its operation and hint, and
\* every later request with that token whose identity is resolved is
\* resolved to that user_id.
TokenBindingSetOnce ==
    [][\A t \in Tokens :
         t \in DOMAIN TOKEN_USER =>
            /\ t \in DOMAIN TOKEN_USER'
            /\ TOKEN_USER'[t] = TOKEN_USER[t]
            /\ (ServedAny /\ req'.token = t /\ Resolved
                    => resp'.user = TOKEN_USER[t])]_vars

\* a bound token was presented again without a hint, after the other user
\* recorded events, and was resolved to its user
BoundTokenResolvedAgain ==
    /\ req.op = "export"
    /\ req.token \in DOMAIN TOKEN_USER
    /\ req.hint = NoHeader
    /\ resp.status = 200
    /\ resp.user = TOKEN_USER[req.token]
    /\ \E u \in DOMAIN ACTIVE : u # resp.user

\* C2: for a token bound to user A, a request with a hint (a non-empty
\* X-User-Id) other than A is answered 403 and changes neither the binding
\* table nor the sessions, the archive or the document; a request with no
\* hint (no header, or an empty one) or with the hint A is resolved to A.
ConflictingHintForbidden ==
    [][ServedAny /\ req'.token \in DOMAIN TOKEN_USER =>
         IF Truthy(req'.hint) /\ req'.hint # TOKEN_USER[req'.token]
         THEN resp'.status = 403 /\ UNCHANGED Stores
         ELSE Resolved /\ resp'.user = TOKEN_USER[req'.token]]_vars

\* end-session was refused with 403 while the user named by the hint has a
\* session of that id
ForbiddenEndReached ==
    /\ req.op = "end"
    /\ resp.status = 403
    /\ req.token \in DOMAIN TOKEN_USER
    /\ HasSession(ACTIVE, req.hint, req.sid)
    /\ HasSession(ACTIVE, TOKEN_USER[req.token], req.sid)

\* C3: for a token with no binding, a request without a hint is answered
\* 401 and changes nothing; a request with a hint H binds the token to H
\* (and binds nothing else) and is resolved to H.
UnboundTokenNeedsHint ==
    [][ServedAny /\ req'.token \notin DOMAIN TOKEN_USER =>
         IF Truthy(req'.hint)
         THEN /\ DOMAIN TOKEN_USER' = DOMAIN TOKEN_USER \cup {req'.token}
              /\ TOKEN_USER'[req'.token] = req'.hint
              /\ \A t \in DOMAIN TOKEN_USER : TOKEN_USER'[t] = TOKEN_USER[t]
              /\ Resolved
              /\ resp'.user = req'.hint
         ELSE resp'.status = 401 /\ UNCHANGED Stores]_vars

\* one token was bound by a request with a hint and recorded an event; the
\* other token, sent with an empty hint, was refused with 401 and is unbound
UnboundTokenRefused ==
    /\ resp.status = 401
    /\ req.hint = ""
    /\ req.token \notin DOMAIN TOKEN_USER
    /\ \E t \in DOMAIN TOKEN_USER : HasSession(ACTIVE, TOKEN_USER[t], "s1")

\* the events of type ty in a list of events, by position
OfType(events, ty) == {i \in 1..Len(events) : events[i].event_type = ty}

\* the amounts, in halves, of the events at the positions I
RECURSIVE AmountAt(_, _)
AmountAt(events, I) ==
    IF I = {} THEN 0
    ELSE LET i == CHOOSE x \in I : TRUE
         IN events[i].amount + AmountAt(events, I \ {i})

\* the four arithmetic fields of a summary, as numbers of halves
Figures(s) ==
    <<s.rounds, s.total_bets.halves, s.total_wins.halves, s.net_change.halves>>

\* C4: the summary computed from an active session (returned by end-session,
\* and by export while the archive has no entry for the session) has
\* rounds = number of bet events, total_bets = sum of the bet amounts,
\* total_wins = sum of the win amounts, net_change = total_wins - total_bets;
\* recording a loss event changes none of the four.
SummaryArithmetic ==
    [][/\ \A u \in Users, sid \in Sids :
            (/\ \/ Served("end")
                \/ Served("export") /\ Matches(GetList(FINISHED, u), sid) = {}
             /\ resp'.status = 200 /\ resp'.user = u /\ req'.sid = sid
             /\ HasSession(ACTIVE', u, sid))
            => LET events == ACTIVE'[u][sid].events
                   s == resp'.body
               IN /\ s.rounds = Cardinality(OfType(events, "bet"))
                  /\ s.total_bets.halves = AmountAt(events, OfType(events, "bet"))
                  /\ s.total_wins.halves = AmountAt(events, OfType(events, "win"))
                  /\ s.net_change.halves = s.total_wins.halves - s.total_bets.halves
       /\ \A u \in Users, sid \in Sids :
            (/\ Served("event") /\ resp'.status = 200
             /\ resp'.user = u /\ req'.sid = sid
             /\ req'.event[1].event_type = "loss"
             /\ HasSession(ACTIVE, u, sid))
            => Figures(ActiveSummary(ACTIVE'[u][sid], u, sid, clock))
                 = Figures(ActiveSummary(ACTIVE[u][sid], u, sid, clock))]_vars

\* the export of an open session with a bet of 1.0 and a win of 0.5:
\* one round, net change -0.5
BetAndWinSummarised ==
    /\ req.op = "export"
    /\ resp.status = 200
    /\ Figures(resp.body) = <<1, 2, 1, -1>>
    /\ resp.body.net_change.kind = "float"
    /\ resp.body.total_bets.kind = "int"

\* C5: end_time is set exactly once.  The first successful end-session sets
\* it to the current time: whenever a session's end_time goes from unset to
\* set, the step is an end-session of that session that answers 200, and
\* the value is the current time; once set, no request changes it; and a
\* successful end-session answers with the stored end_time, which is also
\* the end_time of the session's archive entry.
EndTimeSetOnce ==
    [][\A u \in Users, sid \in Sids :
         HasSession(ACTIVE, u, sid) =>
            LET before == ACTIVE[u][sid].end_time
                after == ACTIVE'[u][sid].end_time
                ended == /\ Served("end") /\ Resolved
                         /\ resp'.user = u /\ req'.sid = sid
                entries == GetList(FINISHED', u)
            IN /\ HasSession(ACTIVE', u, sid)
               /\ before # None => after = before
               /\ (before = None /\ after # None)
                     => (ended /\ resp'.status = 200 /\ after = now_iso(clock))
               /\ (ended /\ resp'.status = 200)
                     => /\ after # None
                        /\ resp'.body.end_time = after
                        /\ \A i \in Matches(entries, sid) :
                              entries[i].end_time = after
                        /\ Matches(entries, sid) # {}]_vars

\* the fields of a summary that C6 names
Outcome(s) ==
    <<s.session_id, s.rounds, s.total_bets, s.total_wins, s.net_change>>

\* C6: ending a session twice in a row gives the same result: when a
\* successful end-session is followed by a successful end-session of the
\* same session, the second answer has the session_id, rounds, total_bets,
\* total_wins and net_change of the first, and the archive is left as the
\* first call left it.
EndTwiceSameResult ==
    [][(/\ Served("end") /\ resp'.status = 200
        /\ req.op = "end" /\ resp.status = 200
        /\ req'.sid = req.sid /\ resp'.user = resp.user)
       => /\ Outcome(resp'.body) = Outcome(resp.body)
          /\ FINISHED' = FINISHED]_vars

\* a session with two events was ended at time 1 and, the durable write
\* succeeding both times, again at time 2
EndedTwice ==
    /\ req.op = "end"
    /\ resp.status = 200
    /\ clock = 2
    /\ resp.body.rounds = 1
    /\ resp.body.total_wins.halves = 2
    /\ resp.body.end_time = now_iso(1)
    /\ disk = save_finished(FINISHED)
    /\ Len(FINISHED[resp.user]) = 1

\* no two entries of a list of summaries carry the same session_id
UniqueSessions(items) ==
    \A i, j \in 1..Len(items) :
        items[i].session_id = items[j].session_id => i = j

\* C7: each user's archive holds at most one entry per session_id; an
\* end-session that computes a summary replaces the entry of its session
\* where it stands when there is one (the length and the other entries
\* stay) and otherwise appends exactly one entry.
ArchiveUpsert ==
    [][/\ \A u \in DOMAIN FINISHED' : UniqueSessions(FINISHED'[u])
       /\ (Served("end") /\ resp'.status = 200) =>
            LET u == resp'.user
                sid == req'.sid
                old == GetList(FINISHED, u)
                new == GetList(FINISHED', u)
            IN IF Matches(old, sid) # {}
               THEN /\ Len(new) = Len(old)
                    /\ \A i \in 1..Len(old) :
                          IF old[i].session_id = sid
                          THEN new[i] = resp'.body
                          ELSE new[i] = old[i]
               ELSE new = Append(old, resp'.body)
       /\ ~Served("end") => FINISHED' = FINISHED]_vars

\* the archive holds two sessions and the first of them, ended before, was
\* ended again after a further event: its entry was replaced where it stood
EntryReplacedInPlace ==
    /\ req.op = "end"
    /\ resp.status = 200
    /\ Len(GetList(FINISHED, resp.user)) = 2
    /\ FINISHED[resp.user][1] = resp.body
    /\ FINISHED[resp.user][1].session_id # FINISHED[resp.user][2].session_id
    /\ FINISHED[resp.user][1].end_time = now_iso(1)
    /\ FINISHED[resp.user][2].end_time = now_iso(2)

\* C9: end-session for a (user, session_id) that has no active session is
\* answered 404 and changes neither the sessions, nor the archive, nor the
\* document, also when the archive holds a summary of that session_id.
EndUnknownNotFound ==
    [][(/\ Served("end") /\ Resolved
        /\ ~HasSession(ACTIVE, resp'.user, req'.sid))
       => /\ resp'.status = 404
          /\ UNCHANGED <<ACTIVE, FINISHED, disk>>]_vars

\* after a restart the archive holds the summary of a session that is no
\* longer active, and ending that session was answered 404
EndAfterRestartNotFound ==
    /\ req.op = "end"
    /\ resp.status = 404
    /\ Matches(GetList(FINISHED, resp.user), req.sid) # {}
    /\ disk = save_finished(FINISHED)
    /\ ~HasSession(ACTIVE, resp.user, req.sid)

\* C10: export of (user, session_id) returns the archive entry of the
\* session when there is one, also when the session is active; otherwise
\* the summary computed from the active session when there is one;
\* otherwise it is answered 404.
ExportPrefersArchive ==
    [][(Served("export") /\ Resolved /\ req'.sid \in Sids) =>
         LET u == resp'.user
             sid == req'.sid
             items == GetList(FINISHED, u)
         IN IF Matches(items, sid) # {}
            THEN /\ resp'.status = 200
                 /\ \E i \in Matches(items, sid) : resp'.body = items[i]
            ELSE IF HasSession(ACTIVE, u, sid)
            THEN /\ resp'.status = 200
                 /\ resp'.body = ActiveSummary(ACTIVE[u][sid], u, sid, clock)
            ELSE resp'.status = 404]_vars

\* the events the worker threads in T have acknowledged
RECURSIVE Acknowledged(_)
Acknowledged(T) ==
    IF T = {} THEN 0
    ELSE LET th == CHOOSE x \in T : TRUE
         IN loc[th].acks + Acknowledged(T \ {th})

\* C8: requests that run at the same time lose no update.  Once every
\* request has been answered the state is one that the requests, served one
\* after the other, could have produced: every acknowledged event is in its
\* session's event list, and no archive holds two entries for one session.
ConcurrentRequestsLoseNothing ==
    (\A th \in Threads : pc[th] = "idle") =>
        /\ TotalEvents(ACTIVE) = Acknowledged(Threads)
        /\ \A u \in DOMAIN FINISHED : UniqueSessions(FINISHED[u])

\* the instant an ISO-8601 string denotes, for strings with a designator
Instant(iso) == iso.wall - ZoneOffset(iso.tz)

\* C11: get-latest answers "no summary found" (status 200, ok = false, no
\* summary) exactly when the user's archive is empty; otherwise it answers
\* with an entry of that user's archive whose end_time is the greatest of
\* all the user's entries.
LatestIsGreatest ==
    [][(Served("latest") /\ Resolved) =>
         LET items == GetList(FINISHED, resp'.user)
         IN /\ resp'.status = 200
            /\ IF items = <<>>
               THEN resp'.ok = FALSE /\ resp'.body = NoBody
               ELSE /\ resp'.ok = TRUE
                    /\ \E i \in 1..Len(items) : resp'.body = items[i]
                    /\ \A j \in 1..Len(items) :
                          Instant(items[j].end_time)
                              <= Instant(resp'.body.end_time)]_vars

\* the archive holds a session ended at time 1 and, after it, a session
\* ended at time 2, and get-latest answered with the second
LatestOfTwo ==
    /\ req.op = "latest"
    /\ resp.ok
    /\ Len(GetList(FINISHED, resp.user)) = 2
    /\ FINISHED[resp.user][1].end_time = now_iso(1)
    /\ FINISHED[resp.user][2].end_time = now_iso(2)
    /\ resp.body = FINISHED[resp.user][2]

\* C12: record-event by a resolved user with a valid or omitted timestamp
\* always succeeds.  A session that does not exist is created with
\* start_time = the timestamp of the event, end_time unset and the event as
\* its only event; to a session that exists, open or ended, the event is
\* appended at the end, and its earlier events, start_time and end_time stay.
\* No other session, no archive and not the document changes.
RecordEventAppends ==
    [][(/\ Served("event") /\ Resolved
        /\ \/ req'.event[1].timestamp = None
           \/ Parseable(req'.event[1].timestamp))
       => LET u == resp'.user
              sid == req'.sid
              e == req'.event[1]
              ts == IF e.timestamp = None THEN now_iso(clock) ELSE e.timestamp
              ev == Event(e.event_type, e.amount, ts)
          IN /\ resp'.status = 200 /\ resp'.ok
             /\ HasSession(ACTIVE', u, sid)
             /\ IF HasSession(ACTIVE, u, sid)
                THEN /\ ACTIVE'[u][sid].events = Append(ACTIVE[u][sid].events, ev)
                     /\ ACTIVE'[u][sid].start_time = ACTIVE[u][sid].start_time
                     /\ ACTIVE'[u][sid].end_time = ACTIVE[u][sid].end_time
                ELSE /\ ACTIVE'[u][sid].events = <<ev>>
                     /\ ACTIVE'[u][sid].start_time = ts
                     /\ ACTIVE'[u][sid].end_time = None
             /\ \A v \in Users, s \in Sids :
                   <<v, s>> # <<u, sid>> =>
                      /\ HasSession(ACTIVE', v, s) <=> HasSession(ACTIVE, v, s)
                      /\ HasSession(ACTIVE, v, s) => ACTIVE'[v][s] = ACTIVE[v][s]
             /\ UNCHANGED <<FINISHED, disk>>]_vars

\* an event with an offset-naive timestamp was recorded on a session that
\* had been ended and archived: it is the second event of the session, and
\* the session's end_time and archive entry are those of the end
EventAfterEnd ==
    /\ req.op = "event"
    /\ resp.status = 200
    /\ req.event[1].timestamp = Iso(0, "naive")
    /\ HasSession(ACTIVE, resp.user, req.sid)
    /\ Len(ACTIVE[resp.user][req.sid].events) = 2
    /\ ACTIVE[resp.user][req.sid].events[2].timestamp = Iso(0, "naive")
    /\ ACTIVE[resp.user][req.sid].end_time = now_iso(1)
    /\ clock = 2
    /\ Matches(GetList(FINISHED, resp.user), req.sid) # {}

\* C13: a durable write that fails during end-session makes the request
\* fail and leaves the persisted document exactly as it was.  An
\* end-session that is answered 200 has written the archive to the
\* document; one that is answered with an error, whatever the error, has
\* left the document untouched (it is never a partly written document).
FailedWriteKeepsDocument ==
    [][Served("end") =>
         /\ resp'.status = 200 => disk' = save_finished(FINISHED')
         /\ resp'.status # 200 => disk' = disk
         /\ disk'.kind \in {"doc", disk.kind}]_vars

\* the document holds the summary of a session ended with one event; the
\* session got a second event and the write of its next end-session failed:
\* the archive in memory has the new summary, the document the old one
EndWriteFailed ==
    /\ req.op = "end"
    /\ resp.status = 500
    /\ disk.kind = "doc"
    /\ resp.user \in DOMAIN disk.doc
    /\ HasSession(ACTIVE, resp.user, req.sid)
    /\ ~SortRaises(TsList(ACTIVE[resp.user][req.sid].events))
    /\ load_finished(disk) # FINISHED

\* C14: persist/reload round trip.  Right after a start of the process the
\* archive in memory is what the document holds: entry for entry and field
\* for field the archive that the last successful end-session wrote (dumping
\* it again gives the same document), and the empty archive when the
\* document is missing, corrupt or not an object; and the document that a
\* successful end-session writes loads back as the archive it was written
\* from.
RoundTrip ==
    /\ [](req.op = "startup" =>
            /\ FINISHED = load_finished(disk)
            /\ disk.kind = "doc" => save_finished(FINISHED) = disk
            /\ disk.kind # "doc" => FINISHED = EmptyDict)
    /\ [][(Served("end") /\ resp'.status = 200)
             => load_finished(disk') = FINISHED']_vars

\* the process was restarted on a document that holds a summary with a
\* whole total (an integer) and a fractional one (a decimal), and the
\* archive in memory holds it with these two kinds of number
ReloadedAfterRestart ==
    /\ req.op = "startup"
    /\ ACTIVE = EmptyDict
    /\ disk.kind = "doc"
    /\ "A" \in DOMAIN FINISHED
    /\ Len(FINISHED["A"]) = 1
    /\ FINISHED["A"][1].total_bets = [kind |-> "float", halves |-> 1]
    /\ FINISHED["A"][1].total_wins = [kind |-> "float", halves |-> 3]
    /\ FINISHED["A"][1].net_change = [kind |-> "int", halves |-> 2]

\* the instants of the timestamps of a list of events
Instants(events) == {Instant(events[i].timestamp) : i \in 1..Len(events)}

Earliest(S) == CHOOSE x \in S : \A y \in S : x <= y

Newest(S) == CHOOSE x \in S : \A y \in S : y <= x

\* C15: the summary computed from an active session (by an export that
\* finds no archive entry, or by end-session) has as start_time the earliest
\* of the timestamps of the session's events, in whatever order they were
\* recorded and whatever start_time the session stores, and as end_time the
\* stored end_time when the session was ended and otherwise the latest of
\* the timestamps of its events; the export of such a session answers with
\* that summary.
SummaryTimes ==
    [][\A u \in Users, sid \in Sids :
         (/\ \/ Served("end")
             \/ Served("export") /\ Matches(GetList(FINISHED, u), sid) = {}
          /\ Resolved /\ resp'.user = u /\ req'.sid = sid
          /\ HasSession(ACTIVE, u, sid))
         => LET sess == ACTIVE'[u][sid]
                stamps == Instants(sess.events)
                s == resp'.body
            IN /\ Served("export") => resp'.status = 200
               /\ resp'.status = 200 =>
                     /\ Instant(s.start_time) = Earliest(stamps)
                     /\ IF sess.end_time # None
                        THEN s.end_time = sess.end_time
                        ELSE Instant(s.end_time) = Newest(stamps)]_vars

\* C16: each successful end-session derives the summary again and
\* overwrites the stored one.  Right after it the user's archive has one
\* entry for the session, which is the summary of the answer and the one
\* computed from all the events the session holds now, those recorded after
\* an earlier end included; when the session had been ended before, the
\* entry keeps the end_time that was set then.
EndOverwritesSummary ==
    [][(Served("end") /\ resp'.status = 200) =>
         LET u == resp'.user
             sid == req'.sid
             sess == ACTIVE'[u][sid]
             items == GetList(FINISHED', u)
         IN /\ Cardinality(Matches(items, sid)) = 1
            /\ \A i \in Matches(items, sid) :
                  /\ items[i] = resp'.body
                  /\ items[i] = ActiveSummary(sess, u, sid, clock)
                  /\ items[i].rounds = Cardinality(OfType(sess.events, "bet"))
                  /\ items[i].total_bets.halves
                        = AmountAt(sess.events, OfType(sess.events, "bet"))
                  /\ items[i].total_wins.halves
                        = AmountAt(sess.events, OfType(sess.events, "win"))
                  /\ ACTIVE[u][sid].end_time # None
                        => items[i].end_time = ACTIVE[u][sid].end_time]_vars

\* a session with one bet was ended at time 1, got a second bet at time 2
\* and was ended again: its archive entry counts two rounds and keeps the
\* end_time of time 1
SecondEndCountsNewEvent ==
    /\ req.op = "end"
    /\ resp.status = 200
    /\ HasSession(ACTIVE, resp.user, req.sid)
    /\ Len(ACTIVE[resp.user][req.sid].events) = 2
    /\ ACTIVE[resp.user][req.sid].events[2].timestamp = now_iso(2)
    /\ Len(FINISHED[resp.user]) = 1
    /\ FINISHED[resp.user][1].rounds = 2
    /\ FINISHED[resp.user][1].end_time = now_iso(1)

\* the part of a table that belongs to user u
Only(d, u) == [k \in (DOMAIN d) \cap {u} |-> d[k]]

\* the summary a successful end-session, latest or export answers with,
\* from the sessions A and the archive F
Answer(op, A, F, u, sid, t) ==
    CASE op = "latest" ->
            IF GetList(F, u) = <<>> THEN NoBody ELSE Latest(GetList(F, u))
      [] op = "export" ->
            IF Matches(GetList(F, u), sid) # {}
            THEN GetList(F, u)[FirstMatch(GetList(F, u), sid)]
            ELSE compute_summary(A, F, u, sid, t).summary
      [] op = "end" ->
            compute_summary(MarkEnded(A, u, sid, t), F, u, sid, t).summary
      [] OTHER -> NoBody

\* C17: user isolation.  A request resolved to a user changes no other
\* user's active sessions and no other user's archive entries; what a
\* successful end-session, latest or export answers is what it would answer
\* if the sessions and archives of all other users were absent, and a "not
\* found" means the user has no such session and no such entry of their own.
\* Two users can hold sessions with the same session_id.
UserIsolation ==
    [][(ServedAny /\ Resolved) =>
         LET u == resp'.user
             mine == Only(ACTIVE, u)
             archive == Only(FINISHED, u)
         IN /\ \A v \in Users \ {u} :
                  /\ v \in DOMAIN ACTIVE' <=> v \in DOMAIN ACTIVE
                  /\ GetDict(ACTIVE', v) = GetDict(ACTIVE, v)
                  /\ v \in DOMAIN FINISHED' <=> v \in DOMAIN FINISHED
                  /\ GetList(FINISHED', v) = GetList(FINISHED, v)
            /\ resp'.status = 200 =>
                  resp'.body = Answer(req'.op, mine, archive, u, req'.sid, clock)
            /\ resp'.status = 404 =>
                  /\ ~HasSession(mine, u, req'.sid)
                  /\ req'.op = "export" =>
                        Matches(GetList(archive, u), req'.sid) = {}]_vars

\* users A and B each hold a session s1; A's, with a bet, was ended and
\* archived; B's, with a win, is open and B has no archive
SameSessionIdTwoUsers ==
    /\ req.op = "end"
    /\ resp.status = 200
    /\ resp.user = "A"
    /\ resp.body.rounds = 1
    /\ resp.body.total_wins.halves = 0
    /\ HasSession(ACTIVE, "B", req.sid)
    /\ ACTIVE["B"][req.sid].events[1].event_type = "win"
    /\ ACTIVE["B"][req.sid].end_time = None
    /\ "B" \notin DOMAIN FINISHED

\* C18: with one request served at a time, every session in the active
\* store has at least one event, and every one of its events has a
\* timestamp that parses; so a summary is never computed from a session
\* without events and "now" is never used for its start_time or end_time:
\* the summary of a session is the same whatever the current time is.
SessionsHaveEvents ==
    \A u \in Users, sid \in Sids :
        HasSession(ACTIVE, u, sid) =>
            LET sess == ACTIVE[u][sid]
            IN /\ sess.events # <<>>
               /\ Len(TsList(sess.events)) = Len(sess.events)
               /\ sess.start_time # None
               /\ \A t \in 1..(MaxTime + 1) :
                     ActiveSummary(sess, u, sid, t)
                        = ActiveSummary(sess, u, sid, clock)

\* at time 2 the export of an open session, whose only event was recorded
\* at time 1, answered with end_time 1, the timestamp of the event
ExportedWithoutNow ==
    /\ req.op = "export"
    /\ resp.status = 200
    /\ clock = 2
    /\ HasSession(ACTIVE, resp.user, req.sid)
    /\ Len(ACTIVE[resp.user][req.sid].events) = 1
    /\ ACTIVE[resp.user][req.sid].end_time = None
    /\ resp.body.start_time = now_iso(1)
    /\ resp.body.end_time = now_iso(1)

\* C19: between two requests the persisted document holds what the archive
\* in memory holds, also after end-session calls whose durable write
\* failed: the archive in memory is the one the document loads to, and a
\* session that carries an end_time has an entry with that end_time in the
\* document.
ArchiveIsPersisted ==
    /\ FINISHED = load_finished(disk)
    /\ \A u \in Users, sid \in Sids :
          (HasSession(ACTIVE, u, sid) /\ ACTIVE[u][sid].end_time # None) =>
              \E i \in Matches(GetList(load_finished(disk), u), sid) :
                  load_finished(disk)[u][i].end_time = ACTIVE[u][sid].end_time

\* C20: get-latest and export only read.  Whether they are answered with a
\* summary, with "no summary found" or with an error, the active sessions
\* (events, start_time, end_time), the archive in memory and the persisted
\* document are after the request what they were before it; the export of
\* an open session does not end it and adds no archive entry.
ReadsChangeNothing ==
    [][(Served("latest") \/ Served("export"))
          => UNCHANGED <<ACTIVE, FINISHED, disk>>]_vars

\* an open session with two events was exported: it is still open, and
\* neither the archive nor the document holds anything
OpenSessionExported ==
    /\ req.op = "export"
    /\ resp.status = 200
    /\ resp.body.rounds = 1
    /\ HasSession(ACTIVE, resp.user, req.sid)
    /\ Len(ACTIVE[resp.user][req.sid].events) = 2
    /\ ACTIVE[resp.user][req.sid].end_time = None
    /\ FINISHED = EmptyDict
    /\ disk.kind = "missing"

====
